---- MODULE Spec2Model ----
(***************************************************************************)
(* A model of jDrupal's src/entity.js: the entity facade (entity_load,     *)
(* entity_delete), the TTL-based entity cache and entity-index cache kept  *)
(* in window.localStorage, and the request de-duplication queue            *)
(* Drupal.services_queue.                                                  *)
(*                                                                         *)
(* The _services_queue helpers, is_int, in_array, function_exists and      *)
(* time are defined elsewhere in jDrupal; they are modelled from the       *)
(* written specification.  The global drupalgap is taken to be declared.   *)
(***************************************************************************)
EXTENDS Integers, Sequences, FiniteSets, TLC

(* ------------------------------ bounds --------------------------------- *)
MaxCalls == 2
MaxTime == 3
MaxLen == 2

(* --------------------------- value universe ---------------------------- *)
\* JavaScript `undefined` and `null` where they can appear in a number slot.
Undefined == -2
Null == -1
\* An undefined callback (options.success / options.error not supplied).
NoCall == 0

\* node: supported, node_retrieve declared.  user: supported, user_retrieve
\* not declared.  foo: not an entity type.
Types == {"node", "user", "foo"}
LoadIds == {1}
IndexIds == {1, 2}
Paths == {"q"}
Data == {"v1", "v2"}
\* Drupal.settings.cache.entity.expiration as a cache decision finds it.
TTLs == {0, 1}
\* Drupal.settings.cache.entity
Settings(b, ttl) == [enabled |-> b, expiration |-> ttl]

\* The `ids` argument: a number, a numeric string, or something that is not a
\* single integer (an array of ids).
IdInputs == [t : {"number", "string"}, v : LoadIds] \cup {[t |-> "array", v |-> 0]}

\* The arguments entity_load is called with.  A call whose ids is not an
\* integer returns before it looks at the type or at the options.
LoadArgs ==
  [type : {"node"}, ids : {x \in IdInputs : x.t # "array"},
   options : [success : BOOLEAN, error : BOOLEAN, reset : BOOLEAN]]
  \cup [type : {"node"}, ids : {x \in IdInputs : x.t = "array"},
        options : [success : {TRUE}, error : BOOLEAN, reset : {FALSE}]]

\* The same with the types that have no retrieve handler.  No entry of such
\* a type is ever stored, so reset has nothing to act on.
TypeLoadArgs ==
  [type : Types, ids : {x \in IdInputs : x.t = "number"},
   options : [success : BOOLEAN, error : BOOLEAN, reset : {FALSE}]]
  \cup [type : {"node"}, ids : {x \in IdInputs : x.t = "array"},
        options : [success : {TRUE}, error : BOOLEAN, reset : {FALSE}]]

\* The arguments entity_delete is called with; it hands ids and options on.
DeleteArgs ==
  [type : {"node", "foo"}, ids : {x \in IdInputs : x.t = "number"},
   options : [success : {TRUE}, error : {TRUE}, reset : {FALSE}]]

Options == [success : BOOLEAN, error : BOOLEAN, reset : BOOLEAN]
\* `options` may be omitted altogether by callers of the cache loaders.
NoOptions == [success |-> FALSE, error |-> FALSE, reset |-> FALSE, given |-> FALSE]
GivenOptions(o) == [success |-> o.success, error |-> o.error, reset |-> o.reset, given |-> TRUE]

\* drupalgap.page.options as a call finds it: reloadingPage and reset
\* (undefined or true / false).
PageHints == {[reloadingPage |-> FALSE, reset |-> "undefined"],
              [reloadingPage |-> TRUE, reset |-> "undefined"],
              [reloadingPage |-> TRUE, reset |-> "false"]}

\* The functions declared on `window`.
Window ==
  {<<"node", "retrieve">>, <<"node", "delete">>}
  \cup {<<type, "create">> : type \in {"comment", "file", "node", "user", "taxonomy_term",
                                       "taxonomy_vocabulary"}}
  \cup {<<type, "update">> : type \in {"comment", "node", "user", "taxonomy_term"}}

\* Transport failures handed to call_options.error(xhr, status, message).
Errors == {[xhr |-> "xhr1", status |-> "timeout", message |-> <<"timed out", "">>],
           [xhr |-> "xhr2", status |-> "error", message |-> <<"Not Found", "">>]}
NoError == [xhr |-> "", status |-> "", message |-> <<"", "">>]

\* The falsy result of a cache load, and an entity as handed to callbacks.
Miss == [data |-> "false", expiration |-> Undefined]
Entity(d, e) == [data |-> d, expiration |-> e]
Truthy(entity) == entity.data # "false"

VARIABLES
  services_queue,  \* Drupal.services_queue[type]['retrieve'][id]
  localStorage,    \* window.localStorage
  enabled,         \* Drupal.settings.cache.entity.enabled
  now,             \* the value time() returns
  inflight,        \* retrieve requests handed to the remote handler, unanswered
  ncalls,          \* number of entity_load calls made so far
  ns,              \* per call: how often its success callback was invoked
  ne,              \* per call: how often its error callback was invoked
  dispatches,      \* per key: number of remote retrieve dispatches
  since,           \* per key: the entity_load calls since the key's last response
  last             \* what the last operation did

vars == <<services_queue, localStorage, enabled, now, inflight, ncalls,
          ns, ne, dispatches, since, last>>

Keys == Types \X LoadIds

(* ------------- helpers of jDrupal defined outside entity.js ------------ *)
\* is_int: true of an integer and of a string that denotes one.
is_int(ids) == ids.t \in {"number", "string"}

in_array(needle, haystack) == needle \in haystack

function_exists(type, op) == <<type, op>> \in Window

\* isQueued: the key has an entry with pending callbacks of the given kind.
_services_queue_already_queued(q, k, kind) ==
  /\ k \in DOMAIN q
  /\ Len(IF kind = "success" THEN q[k].success ELSE q[k].error) # 0

\* enqueue: creates the entry if absent, no-op if present.
_services_queue_add_to_queue(q, k) ==
  IF k \in DOMAIN q THEN q ELSE q @@ (k :> [success |-> <<>>, error |-> <<>>])

\* addCallback: appends to the list of the given kind.
_services_queue_callback_add(q, k, kind, callback) ==
  IF kind = "success"
  THEN [q EXCEPT ![k].success = Append(@, callback)]
  ELSE [q EXCEPT ![k].error = Append(@, callback)]

(* --------------------------- window.localStorage ----------------------- *)
getItem(ls, k) == IF k \in DOMAIN ls THEN <<ls[k]>> ELSE <<>>
setItem(ls, k, v) == [x \in DOMAIN ls \cup {k} |-> IF x = k THEN v ELSE ls[x]]
removeItem(ls, k) == [x \in DOMAIN ls \ {k} |-> ls[x]]

\* JSON.stringify / JSON.parse: a string that carries the value it encodes.
JSON_stringify(v) == [json |-> v]
JSON_parse(str) == str.json

(* ------------------------------ entity.js ------------------------------ *)
\* parseInt of a string; a number is returned as it is.
entity_id_parse(ids) == IF ids.t = "string" THEN ids.v ELSE ids.v

\* entity_type + '_' + id
entity_local_storage_key(type, id) == <<type, id>>

entity_index_local_storage_key(path) == <<path, 0>>

entity_types == {"comment", "file", "node", "taxonomy_term", "taxonomy_vocabulary", "user"}

entity_primary_key(type) ==
  CASE type = "comment" -> "cid"
    [] type = "file" -> "fid"
    [] type = "node" -> "nid"
    [] type = "taxonomy_term" -> "tid"
    [] type = "taxonomy_vocabulary" -> "vid"
    [] type = "user" -> "uid"
    [] OTHER -> "undefined"

entity_caching_enabled(s) == s.enabled

\* An expiration time that treats a time to live of 0 like any other.
_entity_get_expiration_time_no_zero(s, t) ==
  IF s.enabled THEN t + s.expiration ELSE Null

_entity_get_expiration_time(s, t) ==
  IF s.enabled
  THEN (IF s.expiration = 0 THEN 0 ELSE t + s.expiration)
  ELSE Null

_entity_set_expiration_time(entity, s, t) ==
  [entity EXCEPT !.expiration = _entity_get_expiration_time(s, t)]

_entity_local_storage_save(ls, type, id, entity) ==
  setItem(ls, entity_local_storage_key(type, id), JSON_stringify(entity))

_entity_local_storage_delete(ls, type, id) ==
  removeItem(ls, entity_local_storage_key(type, id))

\* Number(x) as used by the comparison time() > x.
ToNumber(x) == IF x = Null THEN 0 ELSE x

\* The comparison the wrong way round.
IsExpiredInverted(expiration, t) ==
  /\ expiration # Undefined
  /\ expiration # 0
  /\ t < ToNumber(expiration)

\* The test without the never-expires sentinel.
IsExpiredNoSentinel(expiration, t) ==
  /\ expiration # Undefined
  /\ t > ToNumber(expiration)

\* typeof e !== 'undefined' && e != 0 && time() > e
IsExpired(expiration, t) ==
  /\ expiration # Undefined
  /\ expiration # 0
  /\ t > ToNumber(expiration)

\* The page framework asks for a fresh copy: the page is reloading and the
\* developer did not set reset to false.
ReloadResets(pg) == pg.reloadingPage /\ pg.reset # "false"

\* The load gets as far as reading drupalgap.page.options: the entry is there
\* after the reset and has not expired.
ReadsPageHints(ls, type, id, options, t) ==
  LET ls1 == IF options.given /\ options.reset
             THEN _entity_local_storage_delete(ls, type, id) ELSE ls
      item == getItem(ls1, entity_local_storage_key(type, id))
  IN  item # <<>> /\ ~IsExpired(JSON_parse(item[1]).expiration, t)

\* A load that ignores options.reset.
_entity_local_storage_load_keeping(ls, type, id, options, t, pg) ==
  LET item == getItem(ls, entity_local_storage_key(type, id))
  IN  IF item = <<>> THEN [ls |-> ls, entity |-> Miss]
      ELSE LET entity == JSON_parse(item[1])
           IN  IF IsExpired(entity.expiration, t)
               THEN [ls |-> _entity_local_storage_delete(ls, type, id), entity |-> Miss]
               ELSE IF ReloadResets(pg)
               THEN [ls |-> _entity_local_storage_delete(ls, type, id), entity |-> Miss]
               ELSE [ls |-> ls, entity |-> entity]

\* Returns the storage after the call and the entity (or Miss).
_entity_local_storage_load(ls, type, id, options, t, pg) ==
  LET ls1 == IF options.given /\ options.reset
             THEN _entity_local_storage_delete(ls, type, id) ELSE ls
      item == getItem(ls1, entity_local_storage_key(type, id))
  IN  IF item = <<>> THEN [ls |-> ls1, entity |-> Miss]
      ELSE LET entity == JSON_parse(item[1])
           IN  IF IsExpired(entity.expiration, t)
               THEN [ls |-> _entity_local_storage_delete(ls1, type, id), entity |-> Miss]
               ELSE IF ReloadResets(pg)
               THEN [ls |-> _entity_local_storage_delete(ls1, type, id), entity |-> Miss]
               ELSE [ls |-> ls1, entity |-> entity]

_entity_index_local_storage_delete(ls, path) ==
  removeItem(ls, entity_index_local_storage_key(path))

\* A loop that leaves out the entities it did not find.
RECURSIVE IndexReplaySkipping(_, _, _, _, _, _, _)
IndexReplaySkipping(ls, type, ids, options, t, pg, acc) ==
  IF ids = <<>> THEN [ls |-> ls, result |-> acc]
  ELSE LET r == _entity_local_storage_load(ls, type, Head(ids), options, t, pg)
       IN  IndexReplaySkipping(r.ls, type, Tail(ids), options, t, pg,
                               IF Truthy(r.entity) THEN Append(acc, r.entity) ELSE acc)

\* The loop that pulls each entity of the index out of local storage.
RECURSIVE IndexReplay(_, _, _, _, _, _, _)
IndexReplay(ls, type, ids, options, t, pg, acc) ==
  IF ids = <<>> THEN [ls |-> ls, result |-> acc]
  ELSE LET r == _entity_local_storage_load(ls, type, Head(ids), options, t, pg)
       IN  IndexReplay(r.ls, type, Tail(ids), options, t, pg, Append(acc, r.entity))

\* An index load that drops the index once one of its entities is missing.
_entity_index_local_storage_load_repairing(ls, type, path, options, t, pg) ==
  LET ls1 == IF options.given /\ options.reset
             THEN _entity_index_local_storage_delete(ls, path) ELSE ls
      item == getItem(ls1, entity_index_local_storage_key(path))
  IN  IF item = <<>> THEN [ls |-> ls1, hit |-> FALSE, result |-> <<>>]
      ELSE LET index == JSON_parse(item[1])
           IN  IF IsExpired(index.expiration, t)
               THEN [ls |-> _entity_index_local_storage_delete(ls1, path),
                     hit |-> FALSE, result |-> <<>>]
               ELSE LET r == IndexReplay(ls1, type, index.entity_ids, options, t, pg, <<>>)
                    IN  [ls |-> IF \E i \in DOMAIN r.result : r.result[i] = Miss
                                THEN _entity_index_local_storage_delete(r.ls, path)
                                ELSE r.ls,
                         hit |-> TRUE, result |-> r.result]

\* Returns the storage after the call, whether an array was returned (rather
\* than false) and the array.
_entity_index_local_storage_load(ls, type, path, options, t, pg) ==
  LET ls1 == IF options.given /\ options.reset
             THEN _entity_index_local_storage_delete(ls, path) ELSE ls
      item == getItem(ls1, entity_index_local_storage_key(path))
  IN  IF item = <<>> THEN [ls |-> ls1, hit |-> FALSE, result |-> <<>>]
      ELSE LET index == JSON_parse(item[1])
           IN  IF IsExpired(index.expiration, t)
               THEN [ls |-> _entity_index_local_storage_delete(ls1, path),
                     hit |-> FALSE, result |-> <<>>]
               ELSE LET r == IndexReplay(ls1, type, index.entity_ids, options, t, pg, <<>>)
                    IN  [ls |-> r.ls, hit |-> TRUE, result |-> r.result]

\* The index load gets as far as reading drupalgap.page.options for one of
\* the entities of the index.
IndexReadsPageHints(ls, type, path, options, t) ==
  LET ls1 == IF options.given /\ options.reset
             THEN _entity_index_local_storage_delete(ls, path) ELSE ls
      item == getItem(ls1, entity_index_local_storage_key(path))
  IN  /\ item # <<>>
      /\ ~IsExpired(JSON_parse(item[1]).expiration, t)
      /\ \E i \in DOMAIN JSON_parse(item[1]).entity_ids :
           ReadsPageHints(ls1, type, JSON_parse(item[1]).entity_ids[i], options, t)

\* result[i][entity_primary_key(entity_type)]
PrimaryKeyValue(e, type) == IF e.pk = entity_primary_key(type) THEN e.id ELSE Undefined

_entity_index_local_storage_save(ls, type, path, result, s, t) ==
  LET index == [entity_type |-> type,
                expiration |-> _entity_get_expiration_time(s, t),
                entity_ids |-> [i \in 1..Len(result) |-> PrimaryKeyValue(result[i], type)]]
  IN  setItem(ls, entity_index_local_storage_key(path), JSON_stringify(index))

(* ------------------------- record of an operation ---------------------- *)
Invocation(c, kind, entity, err) == [c |-> c, kind |-> kind, entity |-> entity, err |-> err]

\* op: the operation; c: the entity_load call (for a response: the call that
\* dispatched the request); type, id: the key; options: the caller's options;
\* page: the page hints, if the operation read them; path: the branch
\* entity_load took; queued: the key was queued when the call started;
\* caching: the value of caching_enabled the call read; pre: getItem of the
\* key before the operation; entity: what the cache load returned, or the
\* entity a response delivered; invoked: the callbacks invoked, in order;
\* remote: the remote handler called; loads: the value of `since` for the key
\* when the response arrived; err: the failure the transport reported;
\* errq: the key's error list before the response; storage: localStorage
\* before a cache store operation; index: the query key; index_hit, result:
\* what the index load returned; saved: the entities handed to the index save;
\* given: the entity entity_save was called with; arg: the entity it handed to
\* the remote handler; ttl: Drupal.settings.cache.entity.expiration as read by
\* a retrieve response that computed an expiration from it.
NoEv ==
  [op |-> "init", c |-> 0, type |-> "", id |-> 0, options |-> NoOptions,
   page |-> [reloadingPage |-> FALSE, reset |-> "undefined"],
   path |-> "", queued |-> FALSE, caching |-> FALSE, pre |-> <<>>, entity |-> Miss,
   invoked |-> <<>>, remote |-> <<>>, loads |-> <<>>, err |-> NoError, errq |-> <<>>,
   storage |-> <<>>, index |-> "", index_hit |-> FALSE, result |-> <<>>, saved |-> <<>>,
   given |-> <<>>, arg |-> <<>>, ttl |-> Undefined]

\* Adds the invocations of the given kind to the per-call counters.
Bump(f, invs, kind) ==
  [x \in DOMAIN f |->
     f[x] + Cardinality({i \in DOMAIN invs : invs[i].c = x /\ invs[i].kind = kind})]

(* ------------------------------ entity_load ---------------------------- *)
UnsupportedError(type) ==
  [xhr |-> "null", status |-> "null",
   message |-> <<"WARNING: entity_load - unsupported type: ", type>>]

\* entity_load without the already-queued test.
entity_load_path_unqueued(queued, caching_enabled, hit, supported, declared) ==
  IF caching_enabled /\ hit THEN "cached"
  ELSE IF ~supported THEN "unsupported"
  ELSE IF declared THEN "dispatch"
  ELSE "no_handler"

\* entity_load that sets the callbacks of a queued key aside without trying
\* local storage.
entity_load_path_queue_first(queued, caching_enabled, hit, supported, declared) ==
  IF queued THEN "waiter"
  ELSE IF caching_enabled /\ hit THEN "cached"
  ELSE IF ~supported THEN "unsupported"
  ELSE IF declared THEN "dispatch"
  ELSE "no_handler"

\* The branch entity_load takes once the id is known to be an integer.
entity_load_path(queued, caching_enabled, hit, supported, declared) ==
  IF queued
  THEN (IF caching_enabled /\ hit THEN "cached_queued" ELSE "waiter")
  ELSE IF caching_enabled /\ hit THEN "cached"
  ELSE IF ~supported THEN "unsupported"
  ELSE IF declared THEN "dispatch"
  ELSE "no_handler"

\* An entity_load that also registers the callback of a call it serves from
\* the cache while the key is queued.
entity_load_queue_hit_registers(q, k, path, options, c) ==
  IF path \in {"cached_queued", "waiter"}
  THEN LET q1 == IF options.success
                 THEN _services_queue_callback_add(q, k, "success", c) ELSE q
       IN  IF options.error
           THEN _services_queue_callback_add(q1, k, "error", c) ELSE q1
  ELSE _services_queue_callback_add(_services_queue_add_to_queue(q, k), k, "success",
                                    IF options.success THEN c ELSE NoCall)

\* An entity_load that queues the key only when it is not served from the
\* cache.
entity_load_queue_after_cache(q, k, path, options, c) ==
  IF path \in {"cached_queued", "cached"} THEN q
  ELSE IF path = "waiter"
  THEN LET q1 == IF options.success
                 THEN _services_queue_callback_add(q, k, "success", c) ELSE q
       IN  IF options.error
           THEN _services_queue_callback_add(q1, k, "error", c) ELSE q1
  ELSE _services_queue_callback_add(_services_queue_add_to_queue(q, k), k, "success",
                                    IF options.success THEN c ELSE NoCall)

\* The queue registry when entity_load returns.
entity_load_queue(q, k, path, options, c) ==
  IF path = "cached_queued" THEN q
  ELSE IF path = "waiter"
  THEN LET q1 == IF options.success
                 THEN _services_queue_callback_add(q, k, "success", c) ELSE q
       IN  IF options.error
           THEN _services_queue_callback_add(q1, k, "error", c) ELSE q1
  ELSE _services_queue_callback_add(_services_queue_add_to_queue(q, k), k, "success",
                                    IF options.success THEN c ELSE NoCall)

\* The callbacks entity_load itself invokes before it returns.
entity_load_invocations(path, options, c, entity, type) ==
  IF path \in {"cached_queued", "cached"}
  THEN (IF options.success THEN <<Invocation(c, "success", entity, NoError)>> ELSE <<>>)
  ELSE IF path = "unsupported"
  THEN (IF options.error
        THEN <<Invocation(c, "error", Miss, UnsupportedError(type))>> ELSE <<>>)
  ELSE <<>>

entity_load(type, ids, options, pg) ==
  /\ ncalls < MaxCalls
  /\ ncalls' = ncalls + 1
  /\ UNCHANGED <<enabled, now>>
  /\ LET c == ncalls + 1
         opts == GivenOptions(options)
     IN  IF ~is_int(ids)
         THEN /\ last' = [NoEv EXCEPT !.op = "entity_load", !.c = c, !.type = type,
                                      !.path = "not_int", !.options = opts]
              /\ UNCHANGED <<services_queue, localStorage, inflight, ns, ne,
                             dispatches, since>>
         ELSE LET caching_enabled == entity_caching_enabled(Settings(enabled, 0))
                  entity_id == entity_id_parse(ids)
                  k == <<type, entity_id>>
                  queued == _services_queue_already_queued(services_queue, k, "success")
                  ld == IF caching_enabled
                        THEN _entity_local_storage_load(localStorage, type, entity_id,
                                                        opts, now, pg)
                        ELSE [ls |-> localStorage, entity |-> Miss]
                  path == entity_load_path(queued, caching_enabled, Truthy(ld.entity),
                                           in_array(type, entity_types),
                                           function_exists(type, "retrieve"))
                  invs == entity_load_invocations(path, options, c, ld.entity, type)
              IN  /\ services_queue' = entity_load_queue(services_queue, k, path, options, c)
                  /\ localStorage' = ld.ls
                  /\ inflight' = IF path = "dispatch"
                                 THEN inflight \cup {[c |-> c, type |-> type, id |-> entity_id,
                                                      caching_enabled |-> caching_enabled,
                                                      error |-> options.error]}
                                 ELSE inflight
                  /\ dispatches' = IF path = "dispatch"
                                   THEN [dispatches EXCEPT ![k] = @ + 1] ELSE dispatches
                  /\ ns' = Bump(ns, invs, "success")
                  /\ ne' = Bump(ne, invs, "error")
                  /\ since' = [since EXCEPT ![k] =
                                 Append(@, [c |-> c, success |-> options.success,
                                            error |-> options.error,
                                            caching |-> caching_enabled, path |-> path])]
                  /\ last' = [NoEv EXCEPT !.op = "entity_load", !.c = c, !.type = type,
                                !.id = entity_id, !.path = path, !.queued = queued,
                                !.caching = caching_enabled, !.options = opts,
                                !.page = IF caching_enabled
                                            /\ ReadsPageHints(localStorage, type, entity_id, opts, now)
                                         THEN pg ELSE NoEv.page,
                                !.pre = getItem(localStorage,
                                                entity_local_storage_key(type, entity_id)),
                                !.entity = ld.entity, !.invoked = invs,
                                !.remote = IF path = "dispatch"
                                           THEN <<type, "retrieve">> ELSE <<>>]

(* ------------------- the remote retrieve handler answers --------------- *)
\* The callbacks the loop over _success_callbacks reaches: calling an
\* undefined entry throws, which ends the loop.
\* A loop that stops after the first callback.
SuccessCallbacksInvokedFirst(cbs) ==
  IF cbs = <<>> \/ Head(cbs) = NoCall THEN <<>> ELSE <<Head(cbs)>>

RECURSIVE SuccessCallbacksInvoked(_)
SuccessCallbacksInvoked(cbs) ==
  IF cbs = <<>> \/ Head(cbs) = NoCall THEN <<>>
  ELSE <<Head(cbs)>> \o SuccessCallbacksInvoked(Tail(cbs))

\* A success wrapper that never resets the success list.
SuccessListAfterKept(cbs) == cbs

\* The success list after call_options.success: reset to [] unless the loop
\* threw before the assignment.
SuccessListAfter(cbs) ==
  IF \E i \in DOMAIN cbs : cbs[i] = NoCall THEN cbs ELSE <<>>

call_options_success(r, data, ttl) ==
  /\ r \in inflight
  /\ inflight' = inflight \ {r}
  /\ UNCHANGED <<enabled, now, ncalls, ne, dispatches>>
  /\ LET k == <<r.type, r.id>>
         entity == IF r.caching_enabled
                   THEN _entity_set_expiration_time(Entity(data, Undefined),
                                                    Settings(enabled, ttl), now)
                   ELSE Entity(data, Undefined)
         cbs == services_queue[k].success
         called == SuccessCallbacksInvoked(cbs)
         invs == [i \in DOMAIN called |-> Invocation(called[i], "success", entity, NoError)]
     IN  /\ localStorage' = IF r.caching_enabled
                            THEN _entity_local_storage_save(localStorage, r.type, r.id, entity)
                            ELSE localStorage
         /\ services_queue' = [services_queue EXCEPT ![k].success = SuccessListAfter(cbs)]
         /\ ns' = Bump(ns, invs, "success")
         /\ since' = [since EXCEPT ![k] = <<>>]
         /\ last' = [NoEv EXCEPT !.op = "retrieve_success", !.c = r.c, !.type = r.type,
                       !.id = r.id, !.caching = r.caching_enabled, !.entity = entity,
                       !.invoked = invs, !.loads = since[k],
                       !.ttl = IF r.caching_enabled /\ enabled THEN ttl ELSE Undefined,
                       !.pre = getItem(localStorage, entity_local_storage_key(r.type, r.id))]

\* An error wrapper that fans the failure out to the queued error callbacks.
call_options_error_fan_out(r, q, err) ==
  (IF r.error THEN <<Invocation(r.c, "error", Miss, err)>> ELSE <<>>)
  \o [i \in DOMAIN q[<<r.type, r.id>>].error |->
        Invocation(q[<<r.type, r.id>>].error[i], "error", Miss, err)]

\* The callbacks call_options.error invokes.
call_options_error_invocations(r, q, err) ==
  IF r.error THEN <<Invocation(r.c, "error", Miss, err)>> ELSE <<>>

\* An error wrapper that resets the key's success list, as the success
\* wrapper does.
call_options_error_queue_clearing(q, k) == [q EXCEPT ![k].success = <<>>]

\* The queue registry after call_options.error: it is not touched.
call_options_error_queue(q, k) == q

call_options_error(r, err) ==
  /\ r \in inflight
  /\ inflight' = inflight \ {r}
  /\ UNCHANGED <<enabled, now, ncalls, ns, dispatches, localStorage>>
  /\ services_queue' = call_options_error_queue(services_queue, <<r.type, r.id>>)
  /\ LET k == <<r.type, r.id>>
         invs == call_options_error_invocations(r, services_queue, err)
     IN  /\ ne' = Bump(ne, invs, "error")
         /\ since' = [since EXCEPT ![k] = <<>>]
         /\ last' = [NoEv EXCEPT !.op = "retrieve_error", !.c = r.c, !.type = r.type,
                       !.id = r.id, !.caching = r.caching_enabled, !.invoked = invs,
                       !.loads = since[k], !.err = err,
                       !.errq = services_queue[k].error]

(* ------------------------------ entity_delete -------------------------- *)
\* An entity_delete that also drops the local copy of the entity.
entity_delete_purging(type, ids, options) ==
  /\ UNCHANGED <<services_queue, enabled, now, inflight, ncalls,
                 ns, ne, dispatches, since>>
  /\ localStorage' = _entity_local_storage_delete(localStorage, type, ids.v)
  /\ last' = [NoEv EXCEPT !.op = "entity_delete", !.type = type, !.id = ids.v,
                !.remote = IF function_exists(type, "delete")
                           THEN <<type, "delete">> ELSE <<>>]

entity_delete(type, ids, options) ==
  /\ UNCHANGED <<services_queue, localStorage, enabled, now, inflight, ncalls,
                 ns, ne, dispatches, since>>
  /\ last' = [NoEv EXCEPT !.op = "entity_delete", !.type = type, !.id = ids.v,
                !.remote = IF function_exists(type, "delete")
                           THEN <<type, "delete">> ELSE <<>>]

(* ------------------------------ environment ---------------------------- *)
\* time() moves on.
Tick ==
  /\ now < MaxTime
  /\ now' = now + 1
  /\ last' = [NoEv EXCEPT !.op = "env"]
  /\ UNCHANGED <<services_queue, localStorage, enabled, inflight, ncalls,
                 ns, ne, dispatches, since>>

\* The application switches entity caching on or off.
SetCache(b) ==
  /\ enabled # b
  /\ enabled' = b
  /\ last' = [NoEv EXCEPT !.op = "env"]
  /\ UNCHANGED <<services_queue, localStorage, now, inflight, ncalls,
                 ns, ne, dispatches, since>>

(* ---------------------------- specification ---------------------------- *)
Init ==
  /\ services_queue = <<>>
  /\ localStorage = <<>>
  /\ enabled \in BOOLEAN
  /\ now = 1
  /\ inflight = {}
  /\ ncalls = 0
  /\ ns = [c \in 1..MaxCalls |-> 0]
  /\ ne = [c \in 1..MaxCalls |-> 0]
  /\ dispatches = [k \in Keys |-> 0]
  /\ since = [k \in Keys |-> <<>>]
  /\ last = NoEv

Next ==
  \/ \E a \in LoadArgs, pg \in PageHints : entity_load(a.type, a.ids, a.options, pg)
  \/ \E r \in inflight, data \in Data, ttl \in TTLs : call_options_success(r, data, ttl)
  \/ \E r \in inflight, err \in Errors : call_options_error(r, err)
  \/ \E a \in DeleteArgs : entity_delete(a.type, a.ids, a.options)
  \/ Tick
  \/ \E b \in BOOLEAN : SetCache(b)

Spec == Init /\ [][Next]_vars

\* The facade called for every type, with and without a retrieve handler.
NextTypes ==
  \/ \E a \in TypeLoadArgs, pg \in PageHints : entity_load(a.type, a.ids, a.options, pg)
  \/ \E r \in inflight, data \in Data, ttl \in TTLs : call_options_success(r, data, ttl)
  \/ \E r \in inflight, err \in Errors : call_options_error(r, err)
  \/ Tick
  \/ \E b \in BOOLEAN : SetCache(b)

SpecTypes == Init /\ [][NextTypes]_vars

\* The facade started with an entity left in local storage by an earlier run
\* of the application: node 1, stored never to expire.
InitWarm ==
  /\ services_queue = <<>>
  /\ localStorage = _entity_local_storage_save(<<>>, "node", 1, Entity("v1", 0))
  /\ enabled = TRUE
  /\ now = 1
  /\ inflight = {}
  /\ ncalls = 0
  /\ ns = [c \in 1..MaxCalls |-> 0]
  /\ ne = [c \in 1..MaxCalls |-> 0]
  /\ dispatches = [k \in Keys |-> 0]
  /\ since = [k \in Keys |-> <<>>]
  /\ last = NoEv

NextWarm ==
  \/ \E a \in LoadArgs, pg \in PageHints : entity_load(a.type, a.ids, a.options, pg)
  \/ \E r \in inflight, data \in Data, ttl \in TTLs : call_options_success(r, data, ttl)
  \/ \E r \in inflight, err \in Errors : call_options_error(r, err)
  \/ Tick
  \/ \E b \in BOOLEAN : SetCache(b)

SpecWarm == InitWarm /\ [][NextWarm]_vars

(* --------------------- the cache stores, used directly ------------------ *)
\* The entity lists an index is saved from: entities of the type, each with
\* its primary key.
RECURSIVE SeqsUpTo(_, _)
SeqsUpTo(S, n) ==
  IF n = 0 THEN {<<>>}
  ELSE SeqsUpTo(S, n - 1)
         \cup {Append(q, x) : q \in {p \in SeqsUpTo(S, n - 1) : Len(p) = n - 1}, x \in S}

QueryResults(type) ==
  SeqsUpTo([pk : {entity_primary_key(type)}, id : IndexIds, data : {"v1"}], MaxLen)

\* The options a cache loader is called with: none, or options with reset.
LoaderOptions ==
  {NoOptions, GivenOptions([success |-> TRUE, error |-> TRUE, reset |-> TRUE])}

\* The entity the remote service holds under an id.
RemoteData(id) == IF id = 1 THEN "v1" ELSE "v2"

UnchangedFacade == UNCHANGED <<services_queue, inflight, ncalls, ns, ne, dispatches, since>>

\* What the success wrapper does with a retrieved entity when caching is on:
\* _entity_set_expiration_time, then _entity_local_storage_save.
cache_save(type, id, data, ttl) ==
  /\ localStorage' =
       _entity_local_storage_save(localStorage, type, id,
         _entity_set_expiration_time(Entity(data, Undefined), Settings(enabled, ttl), now))
  /\ last' = [NoEv EXCEPT !.op = "cache_save"]
  /\ UNCHANGED <<enabled, now>>
  /\ UnchangedFacade

cache_load(type, id, options, pg) ==
  /\ LET ld == _entity_local_storage_load(localStorage, type, id, options, now, pg)
     IN  /\ localStorage' = ld.ls
         /\ last' = [NoEv EXCEPT !.op = "cache_load", !.type = type, !.id = id,
                       !.options = options,
                       !.page = IF ReadsPageHints(localStorage, type, id, options, now)
                                THEN pg ELSE NoEv.page,
                       !.pre = getItem(localStorage, entity_local_storage_key(type, id)),
                       !.entity = ld.entity]
  /\ UNCHANGED <<enabled, now>>
  /\ UnchangedFacade

cache_delete(type, id) ==
  /\ localStorage' = _entity_local_storage_delete(localStorage, type, id)
  /\ last' = [NoEv EXCEPT !.op = "cache_delete"]
  /\ UNCHANGED <<enabled, now>>
  /\ UnchangedFacade

index_save(type, path, result, ttl) ==
  /\ localStorage' = _entity_index_local_storage_save(localStorage, type, path, result,
                                                      Settings(enabled, ttl), now)
  /\ last' = [NoEv EXCEPT !.op = "index_save", !.type = type, !.index = path,
                !.saved = result]
  /\ UNCHANGED <<enabled, now>>
  /\ UnchangedFacade

index_load(type, path, options, pg) ==
  /\ LET ld == _entity_index_local_storage_load(localStorage, type, path, options, now, pg)
     IN  /\ localStorage' = ld.ls
         /\ last' = [NoEv EXCEPT !.op = "index_load", !.type = type, !.index = path,
                       !.options = options,
                       !.page = IF IndexReadsPageHints(localStorage, type, path, options, now)
                                THEN pg ELSE NoEv.page,
                       !.pre = getItem(localStorage, entity_index_local_storage_key(path)),
                       !.storage = localStorage,
                       !.index_hit = ld.hit, !.result = ld.result]
  /\ UNCHANGED <<enabled, now>>
  /\ UnchangedFacade

index_delete(path) ==
  /\ localStorage' = _entity_index_local_storage_delete(localStorage, path)
  /\ last' = [NoEv EXCEPT !.op = "index_delete"]
  /\ UNCHANGED <<enabled, now>>
  /\ UnchangedFacade

NextCache ==
  \/ \E id \in IndexIds, ttl \in TTLs : cache_save("node", id, RemoteData(id), ttl)
  \/ \E id \in IndexIds, options \in LoaderOptions, pg \in PageHints :
       cache_load("node", id, options, pg)
  \/ \E id \in IndexIds : cache_delete("node", id)
  \/ \E path \in Paths, result \in QueryResults("node"), ttl \in TTLs :
       index_save("node", path, result, ttl)
  \/ \E path \in Paths, options \in LoaderOptions, pg \in PageHints :
       index_load("node", path, options, pg)
  \/ \E path \in Paths : index_delete(path)
  \/ Tick

SpecCache == Init /\ [][NextCache]_vars

(* ------------------------------- entity_save --------------------------- *)
\* An entity handed to entity_save: its key fields (Undefined when absent)
\* and its language ("" when absent).
NoFields ==
  [cid |-> Undefined, fid |-> Undefined, nid |-> Undefined, tid |-> Undefined,
   vid |-> Undefined, uid |-> Undefined, language |-> ""]

\* The value of the field of the given name.
Field(entity, name) ==
  CASE name = "cid" -> entity.cid
    [] name = "fid" -> entity.fid
    [] name = "nid" -> entity.nid
    [] name = "tid" -> entity.tid
    [] name = "vid" -> entity.vid
    [] name = "uid" -> entity.uid
    [] OTHER -> Undefined

\* The entity with the field of the given name set.
WithField(entity, name, v) ==
  CASE name = "cid" -> [entity EXCEPT !.cid = v]
    [] name = "fid" -> [entity EXCEPT !.fid = v]
    [] name = "nid" -> [entity EXCEPT !.nid = v]
    [] name = "tid" -> [entity EXCEPT !.tid = v]
    [] name = "vid" -> [entity EXCEPT !.vid = v]
    [] name = "uid" -> [entity EXCEPT !.uid = v]
    [] OTHER -> entity

\* !entity.<key>: the key is absent or 0.
Falsy(v) == v = Undefined \/ v = 0

\* language_default()
language_default == "und"

\* An entity_save with the create and update branches the wrong way round.
entity_save_function_swapped(type, entity) ==
  CASE type = "comment" -> IF Falsy(entity.cid) THEN <<"comment", "update">>
                                                ELSE <<"comment", "create">>
    [] type = "file" -> <<"file", "create">>
    [] type = "node" -> IF Falsy(entity.nid) THEN <<"node", "update">>
                                             ELSE <<"node", "create">>
    [] type = "user" -> IF Falsy(entity.uid) THEN <<"user", "update">>
                                             ELSE <<"user", "create">>
    [] type = "taxonomy_term" -> IF Falsy(entity.tid) THEN <<"taxonomy_term", "update">>
                                                      ELSE <<"taxonomy_term", "create">>
    [] type = "taxonomy_vocabulary" ->
         IF Falsy(entity.vid) THEN <<"taxonomy_vocabulary", "update">>
                              ELSE <<"taxonomy_vocabulary", "create">>
    [] OTHER -> <<>>

\* The switch of entity_save: the function name, <<>> when none is chosen.
entity_save_function(type, entity) ==
  CASE type = "comment" -> IF Falsy(entity.cid) THEN <<"comment", "create">>
                                                ELSE <<"comment", "update">>
    [] type = "file" -> <<"file", "create">>
    [] type = "node" -> IF Falsy(entity.nid) THEN <<"node", "create">>
                                             ELSE <<"node", "update">>
    [] type = "user" -> IF Falsy(entity.uid) THEN <<"user", "create">>
                                             ELSE <<"user", "update">>
    [] type = "taxonomy_term" -> IF Falsy(entity.tid) THEN <<"taxonomy_term", "create">>
                                                      ELSE <<"taxonomy_term", "update">>
    [] type = "taxonomy_vocabulary" ->
         IF Falsy(entity.vid) THEN <<"taxonomy_vocabulary", "create">>
                              ELSE <<"taxonomy_vocabulary", "update">>
    [] OTHER -> <<>>

\* The entity as the switch leaves it: a node without a language gets the
\* default language.
entity_save_entity(type, entity) ==
  IF type = "node" /\ entity.language = ""
  THEN [entity EXCEPT !.language = language_default] ELSE entity

entity_save(type, bundle, entity, options) ==
  /\ LET function_name == entity_save_function(type, entity)
         called == function_name # <<>> /\ function_exists(function_name[1], function_name[2])
     IN  last' = [NoEv EXCEPT !.op = "entity_save", !.type = type, !.given = <<entity>>,
                    !.remote = IF called THEN function_name ELSE <<>>,
                    !.arg = IF called THEN <<entity_save_entity(type, entity)>> ELSE <<>>]
  /\ UNCHANGED <<services_queue, localStorage, enabled, now, inflight, ncalls,
                 ns, ne, dispatches, since>>

\* The entities entity_save is called with: of the type, with its primary
\* key absent, 0 or an id, with or without a language.
SaveKeys == {Undefined, 0, 1, 2}

SaveArgs ==
  {[type |-> type, bundle |-> "article",
    entity |-> [WithField(NoFields, entity_primary_key(type), v) EXCEPT !.language = lang]] :
     type \in entity_types \cup {"foo"}, v \in SaveKeys, lang \in {"", "en"}}

NextSave ==
  \/ \E a \in SaveArgs : entity_save(a.type, a.bundle, a.entity, NoOptions)
  \/ Tick
  \/ \E b \in BOOLEAN : SetCache(b)

SpecSave == Init /\ [][NextSave]_vars

(* ------------------------------ properties ----------------------------- *)
\* An expiration that is a time stamp not yet passed, or the never-expires 0.
Fresh(expiration, t) == expiration = 0 \/ expiration >= t

\* An expiration that is a time stamp the clock has passed.
Stale(expiration, t) == expiration > 0 /\ t > expiration

\* The last operation was an entity_load that got past the id test.
LoadedKey == last.op = "entity_load" /\ last.path # "not_int"

\* The success callbacks invoked by the last operation.
SuccessesInvoked == {i \in DOMAIN last.invoked : last.invoked[i].kind = "success"}

\* The error callbacks invoked by the last operation.
ErrorsInvoked == {i \in DOMAIN last.invoked : last.invoked[i].kind = "error"}

\* A retrieve request for the key is with the remote handler.
Outstanding(k) == {r \in inflight : <<r.type, r.id>> = k}

\* C1: with caching disabled, when the retrieve handler reports success for a
\* key, exactly one of the entity_load calls made for the key since its last
\* response dispatched, and the success callbacks of all of them are invoked
\* with the returned entity, in the order of the calls.
C1_Dedup ==
  (/\ last.op = "retrieve_success"
   /\ \A i \in DOMAIN last.loads : ~last.loads[i].caching /\ last.loads[i].success)
  => /\ Cardinality({i \in DOMAIN last.loads : last.loads[i].path = "dispatch"}) = 1
     /\ Len(last.invoked) = Len(last.loads)
     /\ \A i \in DOMAIN last.loads :
          last.invoked[i] = Invocation(last.loads[i].c, "success", last.entity, NoError)

C1_Witness ==
  /\ last.op = "retrieve_success"
  /\ Len(last.loads) >= 2
  /\ \A i \in DOMAIN last.loads : ~last.loads[i].caching /\ last.loads[i].success
  /\ Len(last.invoked) >= 2

\* C2: at most one retrieve request per key is outstanding; a key with an
\* outstanding request is queued; entity_load dispatches only for a key that
\* was not queued.
C2_OneOutstanding ==
  /\ \A k \in Keys :
       /\ Cardinality(Outstanding(k)) <= 1
       /\ Outstanding(k) # {} => _services_queue_already_queued(services_queue, k, "success")
  /\ (last.op = "entity_load" /\ last.path = "dispatch") => ~last.queued

C2_Witness ==
  /\ last.op = "entity_load"
  /\ last.path = "waiter"
  /\ Outstanding(<<last.type, last.id>>) # {}

\* C3 as stated: whenever a fresh entry is stored for the key, entity_load
\* hands the stored copy to the success callback and calls no remote handler.
C3_AsStated ==
  (LoadedKey /\ last.pre # <<>> /\ Fresh(JSON_parse(last.pre[1]).expiration, now))
  => /\ last.remote = <<>>
     /\ last.options.success =>
          last.invoked = <<Invocation(last.c, "success", JSON_parse(last.pre[1]), NoError)>>

\* C3, amended: with caching enabled, no reset option and no page reload that
\* asks for a fresh copy, an entity_load that finds a fresh entry stored for
\* the key hands the stored copy to the success callback (if there is one),
\* calls no remote handler and keeps the entry, whether the key was queued
\* or not.
C3_CacheHitBypass ==
  (/\ LoadedKey
   /\ last.caching
   /\ ~last.options.reset
   /\ ~ReloadResets(last.page)
   /\ last.pre # <<>>
   /\ Fresh(JSON_parse(last.pre[1]).expiration, now))
  => /\ last.remote = <<>>
     /\ last.path = (IF last.queued THEN "cached_queued" ELSE "cached")
     /\ last.invoked = (IF last.options.success
                        THEN <<Invocation(last.c, "success", JSON_parse(last.pre[1]), NoError)>>
                        ELSE <<>>)
     /\ getItem(localStorage, entity_local_storage_key(last.type, last.id)) = last.pre

C3_Witness ==
  /\ LoadedKey
  /\ last.queued
  /\ last.caching
  /\ last.pre # <<>>
  /\ Fresh(JSON_parse(last.pre[1]).expiration, now)
  /\ Outstanding(<<last.type, last.id>>) = {}
  /\ Len(last.invoked) = 1

\* C4: an entity_load that consults the cache and finds an entry whose
\* expiration is a time stamp the clock has passed gets a miss, hands no
\* cached copy to a success callback, and leaves the key without an entry.
C4_ExpiredNeverHit ==
  (/\ LoadedKey
   /\ last.caching
   /\ ~last.options.reset
   /\ last.pre # <<>>
   /\ Stale(JSON_parse(last.pre[1]).expiration, now))
  => /\ last.entity = Miss
     /\ SuccessesInvoked = {}
     /\ getItem(localStorage, entity_local_storage_key(last.type, last.id)) = <<>>

C4_Witness ==
  /\ LoadedKey
  /\ last.caching
  /\ ~last.options.reset
  /\ last.pre # <<>>
  /\ Stale(JSON_parse(last.pre[1]).expiration, now)
  /\ last.entity = Miss

\* C6: when the retrieve handler reports a failure, the error callback of the
\* call that dispatched the request, if it gave one, is invoked with the
\* failure as reported; nothing else is invoked and the key's error list is
\* as it was.
C6_ErrorToTriggerOnly ==
  last.op = "retrieve_error"
  => LET k == <<last.type, last.id>>
         trigger == {i \in DOMAIN last.loads : last.loads[i].path = "dispatch"}
     IN  /\ \E i \in trigger : last.loads[i].c = last.c
         /\ \A i \in trigger :
              last.invoked = IF last.loads[i].error
                             THEN <<Invocation(last.loads[i].c, "error", Miss, last.err)>>
                             ELSE <<>>
         /\ services_queue[k].error = last.errq

C6_Witness ==
  /\ last.op = "retrieve_error"
  /\ Len(last.invoked) = 1
  /\ last.errq # <<>>
  /\ Len(services_queue[<<last.type, last.id>>].success) >= 2

\* C7 as stated: every entity_load for a type that is not an entity type, made
\* with an error callback and with nothing stored for the key, invokes that
\* error callback with the unsupported-type message and calls no remote
\* handler.
C7_UnsupportedAlwaysReported ==
  (/\ LoadedKey
   /\ ~in_array(last.type, entity_types)
   /\ last.options.error
   /\ last.pre = <<>>)
  => /\ last.remote = <<>>
     /\ last.invoked = <<Invocation(last.c, "error", Miss, UnsupportedError(last.type))>>

\* C8 as stated: an entity_load that fails because the id is not an integer,
\* or because the type has no retrieve handler, invokes the error callback
\* that was supplied and calls no remote handler.
C8_DeclaredFailuresReported ==
  (/\ last.op = "entity_load"
   /\ last.path \in {"not_int", "no_handler"}
   /\ last.options.error)
  => /\ last.remote = <<>>
     /\ ErrorsInvoked # {}

\* C9: entity_delete calls at most the type's remote delete handler and
\* leaves local storage, the queue registry and the outstanding requests as
\* they are.
C9_DeleteFrame ==
  [][last'.op = "entity_delete"
     => /\ localStorage' = localStorage
        /\ services_queue' = services_queue
        /\ inflight' = inflight
        /\ last'.remote \in {<<>>, <<last'.type, "delete">>}
        /\ last'.invoked = <<>>]_vars

C9_Witness ==
  /\ last.op = "entity_delete"
  /\ last.remote = <<last.type, "delete">>
  /\ getItem(localStorage, entity_local_storage_key(last.type, last.id)) # <<>>
  /\ Fresh(JSON_parse(localStorage[entity_local_storage_key(last.type, last.id)]).expiration, now)
  /\ <<last.type, last.id>> \in DOMAIN services_queue

\* C5: a cache load without reset that finds an entry with expiration 0
\* returns it and keeps it, whatever the clock says (the page is not being
\* reloaded for a fresh copy); an index load without reset that finds an
\* index entry with expiration 0 returns an array and keeps the index entry.
C5_ZeroNeverExpires ==
  /\ (/\ last.op = "cache_load"
      /\ ~last.options.reset
      /\ ~ReloadResets(last.page)
      /\ last.pre # <<>>
      /\ JSON_parse(last.pre[1]).expiration = 0)
     => /\ last.entity = JSON_parse(last.pre[1])
        /\ getItem(localStorage, entity_local_storage_key(last.type, last.id)) = last.pre
  /\ (/\ last.op = "index_load"
      /\ ~last.options.reset
      /\ last.pre # <<>>
      /\ JSON_parse(last.pre[1]).expiration = 0)
     => /\ last.index_hit
        /\ getItem(localStorage, entity_index_local_storage_key(last.index)) = last.pre

C5_Witness ==
  /\ last.op = "cache_load"
  /\ last.pre # <<>>
  /\ JSON_parse(last.pre[1]).expiration = 0
  /\ now > 2
  /\ Truthy(last.entity)

\* What the claim expects at a position of a loaded index: the entity stored
\* under the id, or the miss marker when nothing is stored or it has expired.
ExpectedAt(storage, type, id, t) ==
  LET item == getItem(storage, entity_local_storage_key(type, id))
  IN  IF item # <<>> /\ ~Stale(JSON_parse(item[1]).expiration, t)
      THEN JSON_parse(item[1]) ELSE Miss

\* The index save stores the primary keys of the saved entities, in order.
IndexSaveStoresIds ==
  last.op = "index_save"
  => LET item == getItem(localStorage, entity_index_local_storage_key(last.index))
     IN  /\ item # <<>>
         /\ JSON_parse(item[1]).entity_ids = [i \in DOMAIN last.saved |-> last.saved[i].id]

\* The last operation was an index load without reset that found an index
\* entry that has not expired.
IndexLoadedFresh ==
  /\ last.op = "index_load"
  /\ ~last.options.reset
  /\ last.pre # <<>>
  /\ Fresh(JSON_parse(last.pre[1]).expiration, now)

\* C10 as stated: an index load returns, for each saved id in order, the
\* entity stored under it, or the miss marker when that entry is absent or
\* expired.
C10_AsStated ==
  /\ IndexSaveStoresIds
  /\ IndexLoadedFresh
     => LET ids == JSON_parse(last.pre[1]).entity_ids
        IN  /\ last.index_hit
            /\ Len(last.result) = Len(ids)
            /\ \A i \in DOMAIN ids :
                 last.result[i] = ExpectedAt(last.storage, last.type, ids[i], now)

\* C10, amended: as stated, except that when the page is being reloaded and
\* reset is not false, the miss marker is returned at every position.
C10_IndexReconstruction ==
  /\ IndexSaveStoresIds
  /\ IndexLoadedFresh
     => LET ids == JSON_parse(last.pre[1]).entity_ids
        IN  /\ last.index_hit
            /\ Len(last.result) = Len(ids)
            /\ \A i \in DOMAIN ids :
                 last.result[i] = IF ReloadResets(last.page) THEN Miss
                                  ELSE ExpectedAt(last.storage, last.type, ids[i], now)

C10_Witness ==
  /\ IndexLoadedFresh
  /\ ~ReloadResets(last.page)
  /\ Len(last.result) = 2
  /\ last.result[1] = Miss
  /\ Truthy(last.result[2])
  /\ JSON_parse(last.pre[1]).entity_ids = <<1, 2>>

\* C11 as stated: for every entity type, entity_save calls exactly one remote
\* handler: the type's create handler when the entity has no primary key,
\* its update handler when it has one.
C11_AsStated ==
  (last.op = "entity_save" /\ in_array(last.type, entity_types))
  => last.remote = <<last.type,
                     IF Field(last.given[1], entity_primary_key(last.type)) = Undefined
                     THEN "create" ELSE "update">>

\* C11, amended: for every entity type other than file, entity_save chooses
\* the type's create handler when the primary key is absent or 0 and its
\* update handler otherwise; for file it always chooses the create handler.
\* It calls the chosen handler, and no other, when that handler is declared,
\* and no handler when it is not.
C11_CreateOrUpdate ==
  (last.op = "entity_save" /\ in_array(last.type, entity_types))
  => LET key == Field(last.given[1], entity_primary_key(last.type))
         chosen == <<last.type,
                     IF last.type = "file" \/ key = Undefined \/ key = 0
                     THEN "create" ELSE "update">>
     IN  last.remote = IF chosen \in Window THEN chosen ELSE <<>>

C11_Witness ==
  /\ last.op = "entity_save"
  /\ last.type = "node"
  /\ last.given[1].nid = 2
  /\ last.remote = <<"node", "update">>

\* The last operation was a successful retrieve response and it wrote the
\* returned entity to the entity cache.
WrittenBack ==
  /\ last.op = "retrieve_success"
  /\ getItem(localStorage, entity_local_storage_key(last.type, last.id))
       = <<JSON_stringify(last.entity)>>
  /\ last.entity.expiration # Undefined

\* C12: when a retrieve succeeds, the returned entity is written to the
\* entity cache exactly when the caching flag is on at the time of the
\* response, whatever the flag was when entity_load was called.
C12_FlagReadAtResponse ==
  last.op = "retrieve_success" => (WrittenBack <=> enabled)

\* The retrieve response stores the returned entity with the expiration the
\* settings give: 0 for a time to live of 0, otherwise now plus the time to
\* live; the success callbacks get the entity with that expiration.
StoredWithExpiration ==
  /\ last.ttl \in TTLs
  /\ last.entity.expiration = (IF last.ttl = 0 THEN 0 ELSE now + last.ttl)
  /\ getItem(localStorage, entity_local_storage_key(last.type, last.id))
       = <<JSON_stringify(last.entity)>>
  /\ \A i \in DOMAIN last.invoked : last.invoked[i].entity = last.entity

\* The load is served from the cache: the stored copy goes to the success
\* callback and no remote handler is called.
ServedFromCache ==
  /\ last.remote = <<>>
  /\ last.path \in {"cached", "cached_queued"}
  /\ last.entity = JSON_parse(last.pre[1])
  /\ last.options.success =>
       last.invoked = <<Invocation(last.c, "success", JSON_parse(last.pre[1]), NoError)>>

\* C13 as stated: a successful retrieve with caching enabled stores the
\* entity with expiration now + TTL (0 for TTL 0) before the callbacks run,
\* and every later entity_load of the key without reset, at a time not after
\* that expiration, is served from the cache without a dispatch.
C13_AsStated ==
  /\ (last.op = "retrieve_success" /\ last.caching /\ enabled) => StoredWithExpiration
  /\ (/\ LoadedKey
      /\ ~last.options.reset
      /\ last.pre # <<>>
      /\ Fresh(JSON_parse(last.pre[1]).expiration, now))
     => ServedFromCache

\* C13, amended: a successful retrieve for a call made with caching enabled,
\* answered while caching is still enabled, stores the entity with expiration
\* now + TTL (0 for TTL 0) and hands the callbacks the entity so stamped; a
\* later entity_load of the key that finds this entry at a time not after its
\* expiration is served from the cache without a dispatch when caching is
\* enabled at that call, the call has no reset option and the page is not
\* reloading without reset set to false.
C13_StoredThenServed ==
  /\ (last.op = "retrieve_success" /\ last.caching /\ enabled) => StoredWithExpiration
  /\ (/\ LoadedKey
      /\ last.caching
      /\ ~last.options.reset
      /\ ~ReloadResets(last.page)
      /\ last.pre # <<>>
      /\ Fresh(JSON_parse(last.pre[1]).expiration, now))
     => ServedFromCache

C13_Witness ==
  /\ LoadedKey
  /\ last.caching
  /\ ~last.options.reset
  /\ last.options.success
  /\ last.pre # <<>>
  /\ JSON_parse(last.pre[1]).expiration = now
  /\ last.path = "cached"
  /\ Len(last.invoked) = 1

\* C14: when the retrieve handler reports success for a key, every callback
\* in the key's success list is invoked exactly once with the returned
\* entity, in list order; afterwards the success list is empty and the error
\* list is as it was.
C14_FanOutDrains ==
  [][last'.op = "retrieve_success"
     => LET k == <<last'.type, last'.id>>
            cbs == services_queue[k].success
        IN  /\ last'.invoked =
                 [i \in DOMAIN cbs |-> Invocation(cbs[i], "success", last'.entity, NoError)]
            /\ services_queue'[k].success = <<>>
            /\ services_queue'[k].error = services_queue[k].error]_vars

\* The first sequence is an initial part of the second.
IsPrefix(a, b) == Len(a) <= Len(b) /\ SubSeq(b, 1, Len(a)) = a

\* C15: an entity_load for a key that is not queued, with caching enabled and
\* a cache hit, invokes its success callback at once with the stored copy and
\* dispatches nothing, yet leaves a queue entry holding that callback; from
\* then on the entry is never drained: the key stays queued, its success list
\* only grows, and no request is ever dispatched for the key.
C15_OrphanedEntry ==
  [][/\ (last'.op = "entity_load" /\ last'.path = "cached")
        => LET k == <<last'.type, last'.id>>
           IN  /\ ~_services_queue_already_queued(services_queue, k, "success")
               /\ last'.invoked =
                    (IF last'.options.success
                     THEN <<Invocation(last'.c, "success", JSON_parse(last'.pre[1]), NoError)>>
                     ELSE <<>>)
               /\ last'.remote = <<>>
               /\ inflight' = inflight
               /\ k \in DOMAIN services_queue'
               /\ services_queue'[k].success =
                    <<IF last'.options.success THEN last'.c ELSE NoCall>>
     /\ \A k \in Keys :
          (\E i \in DOMAIN since[k] : since[k][i].path = "cached")
          => /\ IsPrefix(since[k], since'[k])
             /\ k \in DOMAIN services_queue
             /\ services_queue[k].success # <<>>
             /\ IsPrefix(services_queue[k].success, services_queue'[k].success)
             /\ {r \in inflight' : <<r.type, r.id>> = k} = {}
             /\ dispatches'[k] = dispatches[k]]_vars

C15_Witness ==
  /\ last.op = "entity_load"
  /\ last.path = "waiter"
  /\ last.options.success
  /\ since[<<last.type, last.id>>][1].path = "cached"
  /\ since[<<last.type, last.id>>][1].success
  /\ ns[since[<<last.type, last.id>>][1].c] = 1
  /\ ns[last.c] = 0
  /\ Len(services_queue[<<last.type, last.id>>].success) = 2

\* C16: the cache load made with the reset option deletes the entry and
\* returns a miss, whether the entry was fresh, expired or absent; so an
\* entity_load with reset never hands a cached copy to a callback, and
\* whenever it looks the key up in the cache the entry is absent afterwards.
C16_ResetForcesMiss ==
  (LoadedKey /\ last.options.reset)
  => /\ last.entity = Miss
     /\ last.path \notin {"cached", "cached_queued"}
     /\ SuccessesInvoked = {}
     /\ last.caching
          => getItem(localStorage, entity_local_storage_key(last.type, last.id)) = <<>>

C16_Witness ==
  /\ LoadedKey
  /\ last.options.reset
  /\ last.options.success
  /\ last.caching
  /\ last.pre # <<>>
  /\ Fresh(JSON_parse(last.pre[1]).expiration, now)
  /\ last.path = "dispatch"
  /\ getItem(localStorage, entity_local_storage_key(last.type, last.id)) = <<>>

\* C17: an index load that hits leaves the stored index entry exactly as it
\* was, even when some of its ids are missing from the entity cache; an index
\* load that finds the index expired removes the index entry and nothing
\* else: every entity entry is as it was.
C17_IndexLoadFrame ==
  /\ (last.op = "index_load" /\ last.index_hit)
     => /\ last.pre # <<>>
        /\ getItem(localStorage, entity_index_local_storage_key(last.index)) = last.pre
  /\ (/\ last.op = "index_load"
      /\ ~last.options.reset
      /\ last.pre # <<>>
      /\ Stale(JSON_parse(last.pre[1]).expiration, now))
     => /\ ~last.index_hit
        /\ localStorage = removeItem(last.storage, entity_index_local_storage_key(last.index))

C17_Witness ==
  /\ last.op = "index_load"
  /\ last.index_hit
  /\ ~ReloadResets(last.page)
  /\ \E i \in DOMAIN last.result : last.result[i] = Miss
  /\ \E i \in DOMAIN last.result : Truthy(last.result[i])
  /\ getItem(localStorage, entity_index_local_storage_key(last.index)) = last.pre

\* An index load found the index expired while entities were in the cache.
C17_WitnessExpired ==
  /\ last.op = "index_load"
  /\ ~last.options.reset
  /\ last.pre # <<>>
  /\ Stale(JSON_parse(last.pre[1]).expiration, now)
  /\ \E k \in DOMAIN localStorage : k # entity_index_local_storage_key(last.index)

\* C18: over the whole execution the success callback of each entity_load
\* call is invoked at most once, whether the call was served from the cache,
\* dispatched the request or waited for one.
C18_SuccessAtMostOnce ==
  \A c \in 1..MaxCalls : ns[c] <= 1

C18_Witness ==
  /\ last.op = "entity_load"
  /\ last.path = "cached_queued"
  /\ ns[last.c] = 1
  /\ \E c \in 1..MaxCalls :
       /\ c # last.c
       /\ ns[c] = 1
       /\ services_queue[<<last.type, last.id>>].success = <<c>>

\* The key is queued and no request for it is outstanding.
Stuck(q, inf, k) ==
  /\ _services_queue_already_queued(q, k, "success")
  /\ {r \in inf : <<r.type, r.id>> = k} = {}

\* The calls whose callbacks are registered for the key.
Registered(q, k) ==
  {q[k].success[i] : i \in DOMAIN q[k].success}
    \cup {q[k].error[i] : i \in DOMAIN q[k].error}

\* C19: a retrieve that ends with an error leaves the key's success list as
\* it was and the key queued, with no request outstanding. From then on the
\* key stays queued: an entity_load for the key that gets no copy from the
\* cache is registered as a waiter and dispatches nothing, no request for the
\* key is dispatched again, and no registered callback is invoked.
C19_ErrorLeavesKeyQueued ==
  [][/\ last'.op = "retrieve_error"
        => LET k == <<last'.type, last'.id>>
           IN  /\ services_queue'[k].success = services_queue[k].success
               /\ Stuck(services_queue', inflight', k)
     /\ \A k \in Keys :
          Stuck(services_queue, inflight, k)
          => /\ Stuck(services_queue', inflight', k)
             /\ dispatches'[k] = dispatches[k]
             /\ \A c \in Registered(services_queue, k) \ {NoCall} :
                  ns'[c] = ns[c] /\ ne'[c] = ne[c]
             /\ (last'.op = "entity_load" /\ <<last'.type, last'.id>> = k
                 /\ last'.entity = Miss)
                => /\ last'.path = "waiter"
                   /\ last'.invoked = <<>>
                   /\ last'.remote = <<>>
                   /\ (last'.options.success \/ last'.options.error)
                        => last'.c \in Registered(services_queue', k)]_vars

C19_Witness ==
  /\ last.op = "entity_load"
  /\ last.path = "waiter"
  /\ last.options.success
  /\ last.options.error
  /\ Stuck(services_queue, inflight, <<last.type, last.id>>)
  /\ dispatches[<<last.type, last.id>>] = 1
  /\ \E c \in 1..MaxCalls : ne[c] = 1
  /\ ns[last.c] = 0
  /\ ne[last.c] = 0

\* The number of requests dispatched for the key of the last entity_load
\* before that call.
DispatchedBefore ==
  dispatches[<<last.type, last.id>>] - (IF last.path = "dispatch" THEN 1 ELSE 0)

\* C20: once a retrieve has succeeded and its callbacks were drained, the key
\* is not queued any more: the next entity_load for the key that gets no copy
\* from the cache dispatches a new request, and when that request succeeds
\* the call's success callback is invoked with the returned entity.
C20_DrainedKeyDispatchesAgain ==
  /\ (/\ last.op = "retrieve_success"
      /\ last.loads # <<>>
      /\ last.loads[1].success)
     => /\ Len(last.invoked) >= 1
        /\ ~_services_queue_already_queued(services_queue, <<last.type, last.id>>, "success")
  /\ (/\ LoadedKey
      /\ DispatchedBefore >= 1
      /\ ~last.queued
      /\ last.entity = Miss)
     => /\ last.path = "dispatch"
        /\ last.remote = <<last.type, "retrieve">>
        /\ \E r \in Outstanding(<<last.type, last.id>>) : r.c = last.c
  /\ (/\ last.op = "retrieve_success"
      /\ dispatches[<<last.type, last.id>>] >= 2
      /\ last.loads # <<>>
      /\ last.loads[1].success)
     => /\ last.loads[1].c = last.c
        /\ last.loads[1].path = "dispatch"
        /\ last.invoked # <<>>
        /\ last.invoked[1] = Invocation(last.c, "success", last.entity, NoError)
        /\ ns[last.c] = 1

C20_Witness ==
  /\ last.op = "retrieve_success"
  /\ dispatches[<<last.type, last.id>>] = 2
  /\ last.loads # <<>>
  /\ last.loads[1].success
  /\ ns[last.c] = 1
  /\ \E c \in 1..MaxCalls : c # last.c /\ ns[c] = 1
  /\ services_queue[<<last.type, last.id>>].success = <<>>

====
